---- MODULE Spec2Model ----
(***************************************************************************)
(* scarconf: the S3car configuration class (scarconf/core.py) and the      *)
(* ODIMFileInfo metadata reader (scarconf/io.py) as state machines.        *)
(*                                                                         *)
(* Text values that the code only stores or compares are TLA+ strings.     *)
(* Text values that the code splits and converts (the list options of      *)
(* local.conf, file names) are sequences of one-character strings, so that *)
(* split(' '), int(), float(), re.match and os.path.basename are computed. *)
(* configparser is represented by what it hands to the code: a file that   *)
(* is absent, a file it refuses, or the sections and options it parsed.    *)
(***************************************************************************)
EXTENDS Integers, Sequences, FiniteSets, TLC

VARIABLES
    pc,               \* position of S3car.__init__ / the object's life cycle
    localconf,        \* etc_dir/local.conf as it is on disk
    dirs,             \* the directories that exist on disk
    read_radars,      \* constructor argument
    s3car,            \* the object's configuration attributes
    radar_site_info,  \* the radar table attribute (unset until loaded)
    printed,          \* what read_local_config wrote with print()
    error,            \* the exception that left __init__, if any
    result,           \* outcome of the last query on the constructed object
    opc,              \* position of ODIMFileInfo.__init__
    input_file,       \* constructor argument of ODIMFileInfo
    disk,             \* what the file system holds at that path
    odim,             \* the ODIMFileInfo attributes and set_infos' locals
    handle,           \* the h5py.File handle: "none", "open" or "closed"
    gates,            \* the construction gates evaluated so far, in order
    pending,          \* exception raised inside the with block, not yet out
    oerror            \* the exception that left ODIMFileInfo.__init__, if any

confvars == <<pc, localconf, dirs, read_radars, s3car, radar_site_info,
              printed, error, result>>

odimvars == <<opc, input_file, disk, odim, handle, gates, pending, oerror>>

vars == <<confvars, odimvars>>

\* Bound: how far the installation departs from a complete one with no
\* local.conf options (options in local.conf plus directories removed).
MaxDeviations == 2

Digits == <<"0", "1", "2", "3", "4", "5", "6", "7", "8", "9">>

IsDigit(c) == \E i \in 1..10 : Digits[i] = c

DigitVal(c) == (CHOOSE i \in 1..10 : Digits[i] = c) - 1

RECURSIVE DecVal(_)
\* value of a non-empty run of decimal digits
DecVal(t) ==
    IF t = <<>> THEN 0
    ELSE 10 * DecVal(SubSeq(t, 1, Len(t) - 1)) + DigitVal(t[Len(t)])

AllDigits(t) == Len(t) >= 1 /\ \A i \in 1..Len(t) : IsDigit(t[i])

\* int(r) / float(r) accept an optional sign followed by digits (of the
\* characters used here); anything else raises ValueError.
IsNumber(t) ==
    \/ AllDigits(t)
    \/ Len(t) >= 2 /\ t[1] = "-" /\ AllDigits(Tail(t))

NumberOf(t) == IF t[1] = "-" THEN 0 - DecVal(Tail(t)) ELSE DecVal(t)

RECURSIVE Split(_)
\* str.split(' '): the pieces between single spaces (empty pieces kept)
Split(t) ==
    IF \A i \in 1..Len(t) : t[i] # " " THEN <<t>>
    ELSE LET k == CHOOSE i \in 1..Len(t) :
                      t[i] = " " /\ \A j \in 1..(i - 1) : t[j] # " "
         IN  <<SubSeq(t, 1, k - 1)>> \o Split(SubSeq(t, k + 1, Len(t)))

---------------------------------------------------------------------------
(* local.conf as configparser presents it *)

StringOptions ==
    { [sec |-> "country", item |-> "code", val |-> "NZ"],
      [sec |-> "gpm", item |-> "userid", val |-> "u1"],
      [sec |-> "gpm", item |-> "requestid", val |-> "002"],
      [sec |-> "rainptl", item |-> "enable", val |-> "no"],
      [sec |-> "rainptl", item |-> "enable", val |-> "maybe"],
      [sec |-> "radar.5", item |-> "longname", val |-> "Carnarvon West"],
      [sec |-> "radar.99", item |-> "longname", val |-> "Test Site"] }

ListOptions ==
    { [sec |-> "radar", item |-> "tier1", val |-> <<>>],
      [sec |-> "radar", item |-> "tier1", val |-> <<"5", " ", "9">>],
      [sec |-> "radar", item |-> "tier1", val |-> <<"5", " ", " ", "9">>],
      [sec |-> "radar", item |-> "tier2", val |-> <<"9">>],
      [sec |-> "radar", item |-> "tier3", val |-> <<"2", " ", "5">>],
      [sec |-> "radar", item |-> "censor", val |-> <<"5">>],
      [sec |-> "radar", item |-> "nosun", val |-> <<>>],
      [sec |-> "radar", item |-> "ids", val |-> <<"9", "9", " ", "5">>],
      [sec |-> "radar", item |-> "ids", val |-> <<"0", "5">>],
      [sec |-> "radar", item |-> "ids", val |-> <<"5", " ", "x">>],
      [sec |-> "region", item |-> "lat",
       val |-> <<"-", "4", "0", " ", "-", "1", "0">>],
      [sec |-> "region", item |-> "lat", val |-> <<"5", " ", "5">>],
      [sec |-> "region", item |-> "lat", val |-> <<"7">>],
      [sec |-> "region", item |-> "lon",
       val |-> <<"1", "1", "0", " ", "1", "5", "0">>],
      [sec |-> "region", item |-> "lon", val |-> <<"a">>] }

\* section headers with no option under them
BareSections == {"radar.5", "radar.99"}

RECURSIVE SubsetsUpTo(_, _)
SubsetsUpTo(S, n) ==
    IF n <= 0 THEN {{}}
    ELSE LET P == SubsetsUpTo(S, n - 1)
         IN  P \cup {p \cup {e} : p \in P, e \in S}

\* configparser refuses a file that gives an option twice in a section
UniqueKeys(E) ==
    \A e1, e2 \in E : (e1.sec = e2.sec /\ e1.item = e2.item) => e1 = e2

NoFile == [state |-> "absent", strs |-> {}, lists |-> {}, bare |-> {}]

BadFile == [state |-> "malformed", strs |-> {}, lists |-> {}, bare |-> {}]

Size(f) == Cardinality(f.strs) + Cardinality(f.lists) + Cardinality(f.bare)

OkFile(S, L, B) == [state |-> "ok", strs |-> S, lists |-> L, bare |-> B]

\* the files with at most n options and bare sections, and the two that
\* give the parser nothing
ConfFiles(n) ==
    {NoFile, BadFile} \cup
    UNION { UNION { { OkFile(S, L, B) :
                        B \in SubsetsUpTo(BareSections,
                                          n - Cardinality(S) - Cardinality(L)) } :
                    L \in {X \in SubsetsUpTo(ListOptions, n - Cardinality(S)) :
                             UniqueKeys(X)} } :
            S \in {X \in SubsetsUpTo(StringOptions, n) : UniqueKeys(X)} }

\* cfg.read(cfg_path): a missing file is skipped silently, leaving an empty
\* parser; a file the parser refuses raises.
ReadRaises(f) == f.state = "malformed"

Sections(f) ==
    IF f.state # "ok" THEN {}
    ELSE {e.sec : e \in f.strs} \cup {e.sec : e \in f.lists} \cup f.bare

Items(f, group) ==
    {e.item : e \in {x \in f.strs : x.sec = group}} \cup
    {e.item : e \in {x \in f.lists : x.sec = group}}

have_config(cfg, group, item) ==
    group \in Sections(cfg) /\ item \in Items(cfg, group)

\* cfg[group][item] for an option the code uses as text
GetStr(cfg, group, item) ==
    (CHOOSE e \in cfg.strs : e.sec = group /\ e.item = item).val

\* cfg[group][item] for an option the code splits
GetRaw(cfg, group, item) ==
    (CHOOSE e \in cfg.lists : e.sec = group /\ e.item = item).val

\* whether a conversion in config_list raises ValueError
config_list_raises(cfg, group, item) ==
    LET raw == GetRaw(cfg, group, item)
        parts == Split(raw)
    IN  raw # <<>> /\ \E i \in 1..Len(parts) : ~IsNumber(parts[i])

config_list(cfg, group, item) ==
    LET raw == GetRaw(cfg, group, item)
        parts == Split(raw)
    IN  IF raw = <<>> THEN <<>>
        ELSE [i \in 1..Len(parts) |-> NumberOf(parts[i])]

\* SectionProxy.getboolean
BooleanTrue == {"1", "yes", "true", "on"}

BooleanFalse == {"0", "no", "false", "off"}

---------------------------------------------------------------------------
(* S3car: defaults *)

RootDir == <<"/srv/data/s3car-server">>

HtmlDir == <<"/srv/web/s3car-server/www">>

\* os.path.join(root_dir, ...): a path is its sequence of components
PathOf(k) ==
    CASE k = "root_path" -> RootDir
      [] k = "cluttercal_path" -> RootDir \o <<"cluttercal">>
      [] k = "config_path" -> RootDir \o <<"config">>
      [] k = "clean_ts_path" -> RootDir \o <<"s3car_diagnostics", "clean">>
      [] k = "diagnostics_path" -> RootDir \o <<"s3car_diagnostics", "diagnostics">>
      [] k = "raw_ts_path" -> RootDir \o <<"s3car_diagnostics", "raw">>
      [] k = "dualpolqc_path" -> RootDir \o <<"dualpol_qc">>
      [] k = "gpmmatch_path" -> RootDir \o <<"gpmmatch">>
      [] k = "html_path" -> HtmlDir
      [] k = "log_path" -> RootDir \o <<"log">>
      [] k = "solar_path" -> RootDir \o <<"solar", "data">>
      [] k = "sst_path" -> RootDir \o <<"sensitivity">>
      [] k = "vols_path" -> RootDir \o <<"vols">>
      [] k = "zdr_path" -> RootDir \o <<"zdr_monitoring">>

\* self.__dict__ in insertion order, as check_paths_exist walks it
AttrNames ==
    <<"root_path", "cluttercal_path", "config_path", "clean_ts_path",
      "diagnostics_path", "raw_ts_path", "dualpolqc_path", "gpmmatch_path",
      "html_path", "log_path", "solar_path", "sst_path", "vols_path",
      "zdr_path", "zdr_range", "zdr_step", "zdr_bins", "radar_longname",
      "country_code", "gpm_userid", "gpm_requestid", "rainptl_enabled",
      "region", "tier1_radars", "tier2_radars", "tier3_radars",
      "censor_radars", "nosun_radars">>

\* "path" in k
HasPathInName(k) ==
    k \in {"root_path", "cluttercal_path", "config_path", "clean_ts_path",
           "diagnostics_path", "raw_ts_path", "dualpolqc_path",
           "gpmmatch_path", "html_path", "log_path", "solar_path",
           "sst_path", "vols_path", "zdr_path"}

PathAttrs == SelectSeq(AttrNames, HasPathInName)

DefaultLongname ==
       (1 :> "Melbourne (Broadmeadows)") @@ (2 :> "Melbourne") @@
       (3 :> "Wollongong (Appin)") @@ (4 :> "Newcastle") @@
       (5 :> "Carnarvon") @@ (6 :> "Geraldton") @@
       (7 :> "Wyndham") @@ (8 :> "Gympie (Mt Kanigan)") @@
       (9 :> "Gove") @@ (10 :> "Darwin Airport") @@
       (14 :> "Mt Gambier") @@ (15 :> "Dampier") @@
       (16 :> "Pt Hedland") @@ (17 :> "Broome") @@
       (19 :> "Cairns") @@ (22 :> "Mackay") @@
       (23 :> "Gladstone") @@ (24 :> "Bowen") @@
       (25 :> "Alice Springs") @@ (26 :> "Perth Airport") @@
       (27 :> "Woomera") @@ (28 :> "Grafton") @@
       (29 :> "Learmonth") @@ (30 :> "Mildura") @@
       (31 :> "Albany") @@ (32 :> "Esperance") @@
       (33 :> "Ceduna") @@ (36 :> "Gulf of Carpentaria (Mornington Is)") @@
       (37 :> "Hobart Airport") @@ (38 :> "Newdegate") @@
       (39 :> "Halls Creek") @@ (40 :> "Canberra (Captains Flat)") @@
       (41 :> "Willis Island") @@ (42 :> "Katherine (Tindal)") @@
       (44 :> "Giles") @@ (46 :> "Adelaide (Sellicks Hill)") @@
       (48 :> "Kalgoorlie") @@ (49 :> "Yarrawonga") @@
       (50 :> "Brisbane (Marburg)") @@ (52 :> "N.W. Tasmania (West Takone)") @@
       (53 :> "Moree") @@ (54 :> "Sydney (Kurnell)") @@
       (55 :> "Wagga Wagga") @@ (56 :> "Longreach") @@
       (58 :> "South Doodlakine") @@ (62 :> "Norfolk Island") @@
       (63 :> "Darwin (Berrimah)") @@ (64 :> "Adelaide (Buckland Park)") @@
       (66 :> "Brisbane (Mt Stapylton)") @@ (67 :> "Warrego") @@
       (68 :> "Bairnsdale") @@ (69 :> "Namoi (Blackjack Mountain)") @@
       (70 :> "Perth (Serpentine)") @@ (71 :> "Sydney (Terrey Hills)") @@
       (72 :> "Emerald") @@ (73 :> "Townsville (Hervey Range)") @@
       (74 :> "Greenvale") @@ (75 :> "Mount Isa") @@
       (76 :> "Hobart (Mt Koonya)") @@ (77 :> "Warruwi") @@
       (78 :> "Weipa") @@ (79 :> "Watheroo") @@
       (93 :> "Brewarrina") @@ (94 :> "Hillston") @@
       (95 :> "Rainbow (Wimmera)") @@ (96 :> "Yeoval") @@
       (97 :> "Mildura") @@ (98 :> "Taroom") @@
       (105 :> "Brisbane Airport") @@ (107 :> "Richmond") @@
       (108 :> "Darling Downs") @@ (109 :> "Goondiwindi") @@
       (110 :> "Tennant Creek")

DefaultTier1 ==
    <<2, 3, 4, 8, 19, 22, 23, 24, 28, 40, 52, 63, 64, 66, 68, 70, 71, 73, 76>>

DefaultTier2 ==
    <<1, 5, 6, 7, 14, 15, 16, 17, 29, 31, 32, 38, 42, 46, 49, 50, 55, 58, 67,
      69, 72, 74, 75, 77, 78, 79, 93, 94, 95, 96, 98, 107, 108, 109, 110>>

DefaultTier3 ==
    <<9, 10, 25, 26, 27, 30, 33, 36, 37, 39, 41, 44, 48, 53, 54, 56, 62, 97>>

DefaultCensor == <<30, 100, 101, 102, 103, 104>>

DefaultNosun == <<6, 31, 32, 48, 95>>

\* the attributes after lines 55-70 of __init__; latitudes and longitudes
\* are held in tenths of a degree
Defaults ==
    [ radar_longname |-> DefaultLongname,
      country_code |-> "AU",
      gpm_userid |-> "",
      gpm_requestid |-> "001",
      rainptl_enabled |-> TRUE,
      region |-> [lat |-> <<-460, -75>>, lon |-> <<1120, 1550>>,
                  mercator_x |-> <<>>, mercator_y |-> <<>>,
                  aspect_ratio |-> <<>>],
      tier1_radars |-> DefaultTier1,
      tier2_radars |-> DefaultTier2,
      tier3_radars |-> DefaultTier3,
      censor_radars |-> DefaultCensor,
      nosun_radars |-> DefaultNosun ]

InList(x, lst) == \E i \in 1..Len(lst) : lst[i] = x

\* get_radar_tier with the tier2 test made before the tier1 test
get_radar_tier_tier2_first(self, rid) ==
    IF InList(rid, self.tier2_radars) THEN 2
    ELSE IF InList(rid, self.tier1_radars) THEN 1
    ELSE IF InList(rid, self.tier3_radars) THEN 3
    ELSE 0

get_radar_tier(self, rid) ==
    IF InList(rid, self.tier1_radars) THEN 1
    ELSE IF InList(rid, self.tier2_radars) THEN 2
    ELSE IF InList(rid, self.tier3_radars) THEN 3
    ELSE 0

---------------------------------------------------------------------------
(* S3car.read_local_config *)

\* the running state of one call: the object, what was printed, and the
\* exception that ended the call ("none" while it runs)
Running(self) == [obj |-> self, out |-> <<>>, err |-> "none"]

SetStr(a, cfg, group, item, field) ==
    IF a.err # "none" \/ ~have_config(cfg, group, item) THEN a
    ELSE [a EXCEPT !.obj[field] = GetStr(cfg, group, item)]

SetBool(a, cfg, group, item, field) ==
    IF a.err # "none" \/ ~have_config(cfg, group, item) THEN a
    ELSE LET v == GetStr(cfg, group, item)
         IN  IF v \in BooleanTrue THEN [a EXCEPT !.obj[field] = TRUE]
             ELSE IF v \in BooleanFalse THEN [a EXCEPT !.obj[field] = FALSE]
             ELSE [a EXCEPT !.err = "ValueError"]

\* SetList extending the default list instead of replacing it
SetList_merging(a, cfg, group, item, field) ==
    IF a.err # "none" \/ ~have_config(cfg, group, item) THEN a
    ELSE IF config_list_raises(cfg, group, item)
         THEN [a EXCEPT !.err = "ValueError"]
         ELSE [a EXCEPT !.obj[field] = @ \o config_list(cfg, group, item)]

SetList(a, cfg, group, item, field) ==
    IF a.err # "none" \/ ~have_config(cfg, group, item) THEN a
    ELSE IF config_list_raises(cfg, group, item)
         THEN [a EXCEPT !.err = "ValueError"]
         ELSE [a EXCEPT !.obj[field] = config_list(cfg, group, item)]

Tenths(lst) == [i \in 1..Len(lst) |-> 10 * lst[i]]

SetRegion(a, cfg, group, item) ==
    IF a.err # "none" \/ ~have_config(cfg, group, item) THEN a
    ELSE IF config_list_raises(cfg, group, item)
         THEN [a EXCEPT !.err = "ValueError"]
         ELSE [a EXCEPT !.obj.region[item] =
                           Tenths(config_list(cfg, group, item))]

Stanza(rid) == "radar." \o ToString(rid)

NoTierMsg(rid) == "No tier for radar " \o ToString(rid) \o " configured"

NoEntryMsg(rid) == "No configuration " \o Stanza(rid) \o " entry found"

\* one pass of the body of "for rid in radar_ids"
RadarIdBody(a, cfg, rid) ==
    LET a1 == IF get_radar_tier(a.obj, rid) = 0
              THEN [a EXCEPT !.out = Append(@, NoTierMsg(rid))]
              ELSE a
    IN  IF Stanza(rid) \notin Sections(cfg)
        THEN [a1 EXCEPT !.out = Append(@, NoEntryMsg(rid))]
        ELSE IF have_config(cfg, Stanza(rid), "longname")
        THEN [a1 EXCEPT !.obj.radar_longname =
                 (rid :> GetStr(cfg, Stanza(rid), "longname")) @@ @]
        ELSE a1

RECURSIVE RadarIdLoop_break(_, _, _, _)
\* the loop leaving at the first ID that has no section (break for continue)
RadarIdLoop_break(a, cfg, ids, i) ==
    IF i > Len(ids) THEN a
    ELSE IF Stanza(ids[i]) \notin Sections(cfg)
    THEN RadarIdBody(a, cfg, ids[i])
    ELSE RadarIdLoop_break(RadarIdBody(a, cfg, ids[i]), cfg, ids, i + 1)

RECURSIVE RadarIdLoop(_, _, _, _)
RadarIdLoop(a, cfg, ids, i) ==
    IF i > Len(ids) THEN a
    ELSE RadarIdLoop(RadarIdBody(a, cfg, ids[i]), cfg, ids, i + 1)

SetRadarIds(a, cfg) ==
    IF a.err # "none" \/ ~have_config(cfg, "radar", "ids") THEN a
    ELSE IF config_list_raises(cfg, "radar", "ids")
         THEN [a EXCEPT !.err = "ValueError"]
         ELSE RadarIdLoop(a, cfg, config_list(cfg, "radar", "ids"), 1)

read_local_config(self, cfg) ==
    IF ReadRaises(cfg) THEN Running(self)
    ELSE
    LET a0  == Running(self)
        a1  == SetStr(a0, cfg, "country", "code", "country_code")
        a2  == SetStr(a1, cfg, "gpm", "userid", "gpm_userid")
        a3  == SetStr(a2, cfg, "gpm", "requestid", "gpm_requestid")
        a4  == SetBool(a3, cfg, "rainptl", "enable", "rainptl_enabled")
        a5  == SetList(a4, cfg, "radar", "tier1", "tier1_radars")
        a6  == SetList(a5, cfg, "radar", "tier2", "tier2_radars")
        a7  == SetList(a6, cfg, "radar", "tier3", "tier3_radars")
        a8  == SetList(a7, cfg, "radar", "censor", "censor_radars")
        a9  == SetList(a8, cfg, "radar", "nosun", "nosun_radars")
        a10 == SetRegion(a9, cfg, "region", "lat")
        a11 == SetRegion(a10, cfg, "region", "lon")
    IN  SetRadarIds(a11, cfg)

---------------------------------------------------------------------------
(* S3car.calc_region *)

\* math.log(math.tan(pi/4 + radians(lat)/2)) is defined when the tangent is
\* positive: lat (tenths of a degree) in (-90, 90] modulo 360.
LatInDomain(lat) ==
    LET m == (lat + 900) % 3600 IN m > 0 /\ m <= 1800

\* lon2mx and lat2my are kept as the terms they denote
lon2mx(lon) == <<"eq_radius*radians", lon>>

lat2my(lat) == <<"eq_radius*log(tan(pi/4+radians/2))", lat>>

calc_region(self) ==
    LET lat == self.region.lat
        lon == self.region.lon
        mx  == [i \in 1..Len(lon) |-> lon2mx(lon[i])]
        my  == [i \in 1..Len(lat) |-> lat2my(lat[i])]
        s1  == [self EXCEPT !.region.mercator_x = mx]
        s2  == [s1 EXCEPT !.region.mercator_y = my]
    IN  IF \E i \in 1..Len(lat) : ~LatInDomain(lat[i])
        THEN [obj |-> s1, err |-> "ValueError"]
        ELSE IF Len(lon) < 2 \/ Len(lat) < 2
        THEN [obj |-> s2, err |-> "IndexError"]
        ELSE IF lat[2] = lat[1]
        THEN [obj |-> s2, err |-> "ZeroDivisionError"]
        ELSE [obj |-> [s2 EXCEPT !.region.aspect_ratio =
                         <<"delta_mx/delta_my", <<lon[1], lon[2]>>,
                           <<lat[1], lat[2]>>>>],
              err |-> "none"]

---------------------------------------------------------------------------
(* S3car.check_paths_exist, set_radar_site_info and the queries *)

\* index in PathAttrs of the first attribute whose directory is missing,
\* 0 when every one exists
FirstMissing(existing) ==
    IF \A i \in 1..Len(PathAttrs) : PathOf(PathAttrs[i]) \in existing THEN 0
    ELSE CHOOSE i \in 1..Len(PathAttrs) :
           /\ PathOf(PathAttrs[i]) \notin existing
           /\ \A j \in 1..(i - 1) : PathOf(PathAttrs[j]) \in existing

check_paths_exist_raises(existing) == FirstMissing(existing) # 0

NoError == [cls |-> "none", at |-> "none", path |-> <<>>]

Raised(cls, at) == [cls |-> cls, at |-> at, path |-> <<>>]

Unset == [set |-> FALSE, rows |-> <<>>]

\* config_path/radar_site_list.csv as pd.read_csv finds it
CsvFiles ==
    { [exists |-> FALSE, rows |-> <<>>],
      [exists |-> TRUE, rows |-> <<>>],
      [exists |-> TRUE,
       rows |-> << [id |-> 2, site_lat |-> -377, site_lon |-> 1449],
                   [id |-> 5, site_lat |-> -249, site_lon |-> 1137],
                   [id |-> 2, site_lat |-> -380, site_lon |-> 1450] >>] }

Matching(tbl, rid) == SelectSeq(tbl.rows, LAMBDA r : r.id = rid)

NoResult == [op |-> "none", rid |-> 0, raised |-> "none", value |-> <<>>]

Returned(op, rid, v) ==
    [op |-> op, rid |-> rid, raised |-> "none", value |-> <<v>>]

ReturnedNone(op, rid) ==
    [op |-> op, rid |-> rid, raised |-> "none", value |-> <<>>]

Threw(op, rid, cls) ==
    [op |-> op, rid |-> rid, raised |-> cls, value |-> <<>>]

get_lat(tbl, rid) ==
    IF ~tbl.set THEN Threw("get_lat", rid, "AttributeError")
    ELSE IF Matching(tbl, rid) = <<>> THEN Threw("get_lat", rid, "IndexError")
    ELSE Returned("get_lat", rid, Matching(tbl, rid)[1].site_lat)

get_lon(tbl, rid) ==
    IF ~tbl.set THEN Threw("get_lon", rid, "AttributeError")
    ELSE IF Matching(tbl, rid) = <<>> THEN Threw("get_lon", rid, "IndexError")
    ELSE Returned("get_lon", rid, Matching(tbl, rid)[1].site_lon)

get_radar_longname(self, rid) ==
    IF rid \in DOMAIN self.radar_longname
    THEN Returned("get_radar_longname", rid, self.radar_longname[rid])
    ELSE ReturnedNone("get_radar_longname", rid)

\* the radar IDs the queries are made with
QueryIds == {2, 5, 9, 99}

---------------------------------------------------------------------------
(* ODIMFileInfo (scarconf/io.py) *)

\* Bounds: the longest file name tried, and the highest dataN index that
\* may exist under dataset1.
MaxNameLen == 4

MaxData == 5

NameChars == {"0", "1", "a", "/"}

RECURSIVE SeqsUpTo(_, _)
SeqsUpTo(S, n) ==
    IF n <= 0 THEN {<<>>}
    ELSE LET P == SeqsUpTo(S, n - 1)
         IN  P \cup {Append(p, c) : p \in P, c \in S}

FileNames ==
    SeqsUpTo(NameChars, MaxNameLen) \cup
    { <<"1", "2", "3", "4", "5", "_">>, <<"4", "2", "_">>,
      <<"1", "0", "0", "0", "_">>, <<"1", "0", "0", "1", "_">> }

\* os.path.basename: what follows the last "/"
basename(name) ==
    IF \A i \in 1..Len(name) : name[i] # "/" THEN name
    ELSE LET k == CHOOSE i \in 1..Len(name) :
                      name[i] = "/" /\ \A j \in (i + 1)..Len(name) : name[j] # "/"
         IN  SubSeq(name, k + 1, Len(name))

\* re.match(r"\d+", s).group(0): the leading run of digits (empty: no match)
LeadingDigits(t) ==
    LET n == IF \A i \in 1..Len(t) : IsDigit(t[i]) THEN Len(t)
             ELSE (CHOOSE i \in 1..Len(t) :
                      ~IsDigit(t[i]) /\ \A j \in 1..(i - 1) : IsDigit(t[j])) - 1
    IN  SubSeq(t, 1, n)

NoOdimError == [cls |-> "none", gate |-> 0, what |-> "none"]

OdimRaised(cls, gate, what) == [cls |-> cls, gate |-> gate, what |-> what]

\* check_input_file: [ret, err, gates]
check_input_file(incoming, fs) ==
    IF incoming.type # "str" /\ ~incoming.utf8
    THEN [ret |-> <<>>, gates |-> <<>>,
          err |-> OdimRaised("UnicodeDecodeError", 0, "decode")]
    ELSE IF fs.kind # "file"
    THEN [ret |-> <<>>, gates |-> <<1>>,
          err |-> OdimRaised("FileNotFoundError", 1, "does not exist")]
    ELSE IF fs.size = 0
    THEN [ret |-> <<>>, gates |-> <<1, 2>>,
          err |-> OdimRaised("FileExistsError", 2, "is 0 byte in size")]
    ELSE [ret |-> incoming.text, gates |-> <<1, 2>>, err |-> NoOdimError]

RidMax == 1000

\* get_rid without the upper limit on the radar ID
get_rid_no_upper_limit(filename) ==
    LET run == LeadingDigits(basename(filename))
    IN  IF run = <<>>
        THEN [ret |-> 0, err |-> OdimRaised("ValueError", 3, "no radar ID found")]
        ELSE IF DecVal(run) <= 0
        THEN [ret |-> 0, err |-> OdimRaised("ValueError", 3, "Bad radar ID")]
        ELSE [ret |-> DecVal(run), err |-> NoOdimError]

\* get_rid: [ret, err]
get_rid(filename) ==
    LET run == LeadingDigits(basename(filename))
    IN  IF run = <<>>
        THEN [ret |-> 0, err |-> OdimRaised("ValueError", 3, "no radar ID found")]
        ELSE IF DecVal(run) <= 0 \/ DecVal(run) > RidMax
        THEN [ret |-> 0, err |-> OdimRaised("ValueError", 3, "Bad radar ID")]
        ELSE [ret |-> DecVal(run), err |-> NoOdimError]

\* An attribute of the file: missing, a fixed-length string (bytes), bytes
\* that are not UTF-8, or a value that is not bytes (a str, a number).
Missing == [kind |-> "missing", text |-> <<>>]

Bytes(t) == [kind |-> "bytes", text |-> t]

BadBytes == [kind |-> "badbytes", text |-> <<>>]

NotBytes(t) == [kind |-> "str", text |-> t]

\* odim[group].attrs[name].decode(): the exception it raises, or "none"
DecodeRaises(attr) ==
    CASE attr.kind = "missing" -> "KeyError"
      [] attr.kind = "str" -> "AttributeError"
      [] attr.kind = "badbytes" -> "UnicodeDecodeError"
      [] OTHER -> "none"

GoodDate == <<"2", "0", "2", "1", "0", "6", "0", "1">>

GoodTime == <<"1", "2", "0", "0", "0", "0">>

GoodWhere == [present |-> TRUE, lat |-> <<-377>>, lon |-> <<1449>>]

GoodWhat == [present |-> TRUE, date |-> Bytes(GoodDate), time |-> Bytes(GoodTime)]

\* the root groups "where" and "what" of the files tried
Headers ==
    { [where |-> GoodWhere, what |-> GoodWhat],
      [where |-> [present |-> FALSE, lat |-> <<>>, lon |-> <<>>],
       what |-> GoodWhat],
      [where |-> [GoodWhere EXCEPT !.lon = <<>>], what |-> GoodWhat],
      [where |-> GoodWhere,
       what |-> [present |-> FALSE, date |-> Missing, time |-> Missing]],
      [where |-> GoodWhere, what |-> [GoodWhat EXCEPT !.date = Missing]],
      [where |-> GoodWhere, what |-> [GoodWhat EXCEPT !.date = NotBytes(GoodDate)]],
      [where |-> GoodWhere, what |-> [GoodWhat EXCEPT !.date = BadBytes]],
      [where |-> GoodWhere,
       what |-> [GoodWhat EXCEPT
                   !.date = Bytes(<<"2", "0", "2", "1", "1", "3", "0", "1">>)]],
      [where |-> GoodWhere,
       what |-> [GoodWhat EXCEPT
                   !.time = Bytes(<<"1", "2", ":", "0", "0", ":", "0", "0">>)]] }

QuantityNames ==
    <<"DBZH", "VRADH", "ZDR", "RHOHV", "PHIDP", "KDP", "WRADH", "TH">>

QuantityOf(i) == QuantityNames[((i - 1) % Len(QuantityNames)) + 1]

\* a child dataN of dataset1: complete, without its "what" group, or with a
\* quantity attribute that is not bytes
NodesAt(i) ==
    { [what |-> TRUE, quantity |-> Bytes(QuantityOf(i))],
      [what |-> FALSE, quantity |-> Missing],
      [what |-> TRUE, quantity |-> NotBytes(QuantityOf(i))] }

RECURSIVE NodeMapsUpTo(_)
\* every choice of children among data1..datan
NodeMapsUpTo(n) ==
    IF n <= 0 THEN {<<>>}
    ELSE LET P == NodeMapsUpTo(n - 1)
         IN  P \cup {(n :> c) @@ f : f \in P, c \in NodesAt(n)}

NodeMaps == NodeMapsUpTo(MaxData)

NoContent ==
    [hdf5 |-> FALSE, where |-> [present |-> FALSE, lat |-> <<>>, lon |-> <<>>],
     what |-> [present |-> FALSE, date |-> Missing, time |-> Missing],
     dataset1 |-> FALSE, nodes |-> <<>>]

Content(h, n) ==
    [hdf5 |-> TRUE, where |-> h.where, what |-> h.what, dataset1 |-> TRUE,
     nodes |-> n]

GoodHeader == [where |-> GoodWhere, what |-> GoodWhat]

\* every header with every set of dataN children, and two files with no
\* dataset1 or that are not HDF5 at all
Contents ==
    {Content(h, n) : h \in Headers, n \in NodeMaps} \cup
    {NoContent, [Content(GoodHeader, <<>>) EXCEPT !.dataset1 = FALSE]}

\* the with block of set_infos (lines 60-69); reads: the dataN indexes looked at
BodyStart ==
    [lat |-> <<>>, lon |-> <<>>, date |-> <<>>, time |-> <<>>, var |-> <<>>,
     reads |-> {}, err |-> "none"]

RECURSIVE MomentsLoop_skipping(_, _, _)
\* the loop passing over a missing index instead of stopping at it
MomentsLoop_skipping(b, nodes, dt_idx) ==
    IF dt_idx > MaxData + 1 THEN b
    ELSE IF dt_idx \notin DOMAIN nodes
    THEN MomentsLoop_skipping(b, nodes, dt_idx + 1)
    ELSE LET b1 == [b EXCEPT !.reads = @ \cup {dt_idx}]
             n  == nodes[dt_idx]
         IN  IF ~n.what THEN [b1 EXCEPT !.err = "KeyError"]
             ELSE IF DecodeRaises(n.quantity) # "none"
             THEN [b1 EXCEPT !.err = DecodeRaises(n.quantity)]
             ELSE MomentsLoop_skipping(
                      [b1 EXCEPT !.var = Append(@, n.quantity.text)],
                      nodes, dt_idx + 1)

RECURSIVE MomentsLoop(_, _, _)
MomentsLoop(b, nodes, dt_idx) ==
    IF dt_idx \notin DOMAIN nodes THEN b
    ELSE LET b1 == [b EXCEPT !.reads = @ \cup {dt_idx}]
             n  == nodes[dt_idx]
         IN  IF ~n.what THEN [b1 EXCEPT !.err = "KeyError"]
             ELSE IF DecodeRaises(n.quantity) # "none"
             THEN [b1 EXCEPT !.err = DecodeRaises(n.quantity)]
             ELSE MomentsLoop([b1 EXCEPT !.var = Append(@, n.quantity.text)],
                              nodes, dt_idx + 1)

set_infos_body(f) ==
    LET b0 == BodyStart
    IN  IF ~f.where.present \/ f.where.lat = <<>>
        THEN [b0 EXCEPT !.err = "KeyError"]
        ELSE LET b1 == [b0 EXCEPT !.lat = f.where.lat]
        IN  IF f.where.lon = <<>> THEN [b1 EXCEPT !.err = "KeyError"]
        ELSE LET b2 == [b1 EXCEPT !.lon = f.where.lon]
        IN  IF ~f.what.present THEN [b2 EXCEPT !.err = "KeyError"]
        ELSE IF DecodeRaises(f.what.date) # "none"
        THEN [b2 EXCEPT !.err = DecodeRaises(f.what.date)]
        ELSE LET b3 == [b2 EXCEPT !.date = f.what.date.text]
        IN  IF DecodeRaises(f.what.time) # "none"
        THEN [b3 EXCEPT !.err = DecodeRaises(f.what.time)]
        ELSE LET b4 == [b3 EXCEPT !.time = f.what.time.text]
        IN  IF ~f.dataset1 THEN [b4 EXCEPT !.err = "KeyError"]
        ELSE MomentsLoop(b4, f.nodes, 1)

\* datetime.strptime(text, "%Y%m%d%H%M%S") for texts that hold a character
\* other than a digit (always refused) or exactly 14 digits (fixed fields)
Field(t, a, b) == DecVal(SubSeq(t, a, b))

IsLeap(y) == (y % 4 = 0 /\ y % 100 # 0) \/ y % 400 = 0

DaysIn(y, m) ==
    IF m = 2 THEN (IF IsLeap(y) THEN 29 ELSE 28)
    ELSE IF m \in {4, 6, 9, 11} THEN 30 ELSE 31

strptime_raises(t) ==
    \/ ~AllDigits(t)
    \/ Len(t) # 14
    \/ Field(t, 1, 4) < 1
    \/ Field(t, 5, 6) \notin 1..12
    \/ Field(t, 7, 8) \notin 1..DaysIn(Field(t, 1, 4), Field(t, 5, 6))
    \/ Field(t, 9, 10) > 23
    \/ Field(t, 11, 12) > 59
    \/ Field(t, 13, 14) > 59

strptime(t) ==
    [year |-> Field(t, 1, 4), month |-> Field(t, 5, 6), day |-> Field(t, 7, 8),
     hour |-> Field(t, 9, 10), minute |-> Field(t, 11, 12),
     second |-> Field(t, 13, 14)]

NoObject ==
    [filename |-> <<>>, rid |-> 0, lat |-> <<>>, lon |-> <<>>,
     datetime |-> <<>>, moments |-> <<>>, has_moments |-> FALSE,
     date |-> <<>>, time |-> <<>>, var |-> <<>>, reads |-> {}]

OdimIdle ==
    /\ opc = "idle"
    /\ input_file = [type |-> "str", utf8 |-> TRUE, text |-> <<>>]
    /\ disk = [kind |-> "nothing", size |-> 0, content |-> NoContent]
    /\ odim = NoObject
    /\ handle = "none"
    /\ gates = <<>>
    /\ pending = "none"
    /\ oerror = NoOdimError

ConfIdle ==
    /\ pc = "idle"
    /\ localconf = NoFile
    /\ dirs = {}
    /\ read_radars = FALSE
    /\ s3car = Defaults
    /\ radar_site_info = Unset
    /\ printed = <<>>
    /\ error = NoError
    /\ result = NoResult

\* a name can be a regular file only if it is not empty and does not end
\* in "/"
CanBeFile(name) == name # <<>> /\ name[Len(name)] # "/"

ProbeContents ==
    { NoContent, Content(GoodHeader, <<>>),
      Content(GoodHeader, (1 :> [what |-> TRUE, quantity |-> Bytes(QuantityOf(1))])) }

ProbeNames == { <<"4", "2", "_">>, <<"a", "/", "1">> }

InputTypes ==
    { [type |-> "str", utf8 |-> TRUE], [type |-> "bytes", utf8 |-> TRUE],
      [type |-> "bytes", utf8 |-> FALSE] }

\* Either any name at any kind of path with a few file contents, or a few
\* valid names with any file content.
OdimInit ==
    /\ ConfIdle
    /\ opc = "check_input_file"
    /\ \E name \in FileNames, ty \in InputTypes :
         /\ input_file = [type |-> ty.type, utf8 |-> ty.utf8, text |-> name]
         /\ \/ disk \in { [kind |-> "nothing", size |-> 0, content |-> NoContent],
                          [kind |-> "dir", size |-> 4096, content |-> NoContent] }
            \/ /\ CanBeFile(name) /\ ty.utf8
               /\ disk = [kind |-> "file", size |-> 0, content |-> NoContent]
            \/ /\ CanBeFile(name) /\ ty.utf8
               /\ \E c \in ProbeContents :
                    disk = [kind |-> "file", size |-> 1, content |-> c]
            \/ /\ name \in ProbeNames /\ ty.type = "str"
               /\ \E c \in Contents :
                    disk = [kind |-> "file", size |-> 1, content |-> c]
    /\ odim = NoObject
    /\ handle = "none"
    /\ gates = <<>>
    /\ pending = "none"
    /\ oerror = NoOdimError

OdimFail(e) == opc' = "failed" /\ oerror' = e

CheckInputFile ==
    /\ opc = "check_input_file"
    /\ LET r == check_input_file(input_file, disk)
       IN  /\ gates' = gates \o r.gates
           /\ IF r.err.cls # "none"
              THEN OdimFail(r.err) /\ odim' = odim
              ELSE /\ opc' = "get_rid"
                   /\ odim' = [odim EXCEPT !.filename = r.ret]
                   /\ oerror' = oerror
    /\ UNCHANGED <<input_file, disk, handle, pending, confvars>>

GetRid ==
    /\ opc = "get_rid"
    /\ gates' = Append(gates, 3)
    /\ LET r == get_rid(odim.filename)
       IN  IF r.err.cls # "none"
           THEN OdimFail(r.err) /\ odim' = odim
           ELSE /\ opc' = "set_infos"
                /\ odim' = [odim EXCEPT !.rid = r.ret]
                /\ oerror' = oerror
    /\ UNCHANGED <<input_file, disk, handle, pending, confvars>>

\* h5py.File(self.filename): refuses a file that is not HDF5
SetInfosOpen ==
    /\ opc = "set_infos"
    /\ gates' = Append(gates, 4)
    /\ IF ~disk.content.hdf5
       THEN OdimFail(OdimRaised("OSError", 4, "open")) /\ handle' = handle
       ELSE opc' = "with_body" /\ handle' = "open" /\ oerror' = oerror
    /\ UNCHANGED <<input_file, disk, odim, pending, confvars>>

SetInfosBody ==
    /\ opc = "with_body"
    /\ LET b == set_infos_body(disk.content)
       IN  /\ odim' = [odim EXCEPT !.lat = b.lat, !.lon = b.lon, !.date = b.date,
                                   !.time = b.time, !.var = b.var,
                                   !.reads = b.reads]
           /\ pending' = b.err
    /\ opc' = "with_exit"
    /\ UNCHANGED <<input_file, disk, handle, gates, oerror, confvars>>

\* a close() at the end of the block instead of a with statement: skipped
\* when the body raises
with_exit_close_at_end(h, exc) == IF exc # "none" THEN h ELSE "closed"

\* leaving the with block: the file is closed whether or not the body raised
with_exit(h, exc) == "closed"

WithExit ==
    /\ opc = "with_exit"
    /\ handle' = with_exit(handle, pending)
    /\ IF pending # "none"
       THEN OdimFail(OdimRaised(pending, 4, "read"))
       ELSE opc' = "strptime" /\ oerror' = oerror
    /\ pending' = "none"
    /\ UNCHANGED <<input_file, disk, odim, gates, confvars>>

SetInfosParse ==
    /\ opc = "strptime"
    /\ IF strptime_raises(odim.date \o odim.time)
       THEN OdimFail(OdimRaised("ValueError", 4, "strptime")) /\ odim' = odim
       ELSE /\ odim' = [odim EXCEPT !.datetime = <<strptime(odim.date \o odim.time)>>,
                                    !.moments = odim.var, !.has_moments = TRUE]
            /\ opc' = "done"
            /\ oerror' = oerror
    /\ UNCHANGED <<input_file, disk, handle, gates, pending, confvars>>

OdimNext ==
    \/ CheckInputFile
    \/ GetRid
    \/ SetInfosOpen
    \/ SetInfosBody
    \/ WithExit
    \/ SetInfosParse

SpecOdim == OdimInit /\ [][OdimNext]_vars

---------------------------------------------------------------------------
(* The S3car life cycle: __init__ from line 72 on, then queries *)

AllDirs ==
    {PathOf(PathAttrs[i]) : i \in 1..Len(PathAttrs)} \cup
    {RootDir \o <<"s3car_diagnostics">>, RootDir \o <<"solar">>}

IsPrefix(p, q) == Len(p) <= Len(q) /\ SubSeq(q, 1, Len(p)) = p

\* a directory that is removed takes what lies under it along
Without(removed) ==
    {d \in AllDirs : \A r \in removed : ~IsPrefix(r, d)}

Init ==
    /\ pc = "read_local_config"
    /\ localconf \in ConfFiles(MaxDeviations)
    /\ \E removed \in SubsetsUpTo(AllDirs, MaxDeviations - Size(localconf)) :
           dirs = Without(removed)
    /\ read_radars \in BOOLEAN
    /\ s3car = Defaults
    /\ radar_site_info = Unset
    /\ printed = <<>>
    /\ error = NoError
    /\ result = NoResult
    /\ OdimIdle

ReadLocalConfig ==
    /\ pc = "read_local_config"
    /\ LET r == read_local_config(s3car, localconf)
       IN  /\ s3car' = r.obj
           /\ printed' = r.out
           /\ IF r.err = "none"
              THEN pc' = "calc_region" /\ error' = error
              ELSE pc' = "failed" /\ error' = Raised(r.err, "read_local_config")
    /\ UNCHANGED <<localconf, dirs, read_radars, radar_site_info, result, odimvars>>

CalcRegion ==
    /\ pc = "calc_region"
    /\ LET r == calc_region(s3car)
       IN  /\ s3car' = r.obj
           /\ IF r.err = "none"
              THEN pc' = "check_paths_exist" /\ error' = error
              ELSE pc' = "failed" /\ error' = Raised(r.err, "calc_region")
    /\ UNCHANGED <<localconf, dirs, read_radars, radar_site_info, printed,
                   result, odimvars>>

CheckPathsExist ==
    /\ pc = "check_paths_exist"
    /\ IF check_paths_exist_raises(dirs)
       THEN /\ pc' = "failed"
            /\ error' = [cls |-> "FileNotFoundError",
                         at |-> "check_paths_exist",
                         path |-> PathOf(PathAttrs[FirstMissing(dirs)])]
       ELSE /\ pc' = IF read_radars THEN "set_radar_site_info" ELSE "ready"
            /\ error' = error
    /\ UNCHANGED <<localconf, dirs, read_radars, s3car, radar_site_info,
                   printed, result, odimvars>>

SetRadarSiteInfo ==
    /\ pc = "set_radar_site_info"
    /\ \E csv \in CsvFiles :
         IF ~csv.exists
         THEN /\ pc' = "failed"
              /\ error' = Raised("FileNotFoundError", "set_radar_site_info")
              /\ radar_site_info' = radar_site_info
         ELSE /\ radar_site_info' = [set |-> TRUE, rows |-> csv.rows]
              /\ IF Len(csv.rows) = 0
                 THEN /\ pc' = "failed"
                      /\ error' = Raised("ValueError", "set_radar_site_info")
                 ELSE pc' = "ready" /\ error' = error
    /\ UNCHANGED <<localconf, dirs, read_radars, s3car, printed, result, odimvars>>

Query(r) ==
    /\ pc = "ready"
    /\ result' = r
    /\ UNCHANGED <<pc, localconf, dirs, read_radars, s3car, radar_site_info,
                   printed, error, odimvars>>

GetLat == \E rid \in QueryIds : Query(get_lat(radar_site_info, rid))

GetLon == \E rid \in QueryIds : Query(get_lon(radar_site_info, rid))

GetRadarTier ==
    \E rid \in QueryIds :
        Query(Returned("get_radar_tier", rid, get_radar_tier(s3car, rid)))

GetRadarLongname ==
    \E rid \in QueryIds : Query(get_radar_longname(s3car, rid))

Next ==
    \/ ReadLocalConfig
    \/ CalcRegion
    \/ CheckPathsExist
    \/ SetRadarSiteInfo
    \/ GetLat
    \/ GetLon
    \/ GetRadarTier
    \/ GetRadarLongname

Spec == Init /\ [][Next]_vars

---------------------------------------------------------------------------
(* Properties of S3car, checked under Spec *)

Range(lst) == {lst[i] : i \in 1..Len(lst)}

\* read_local_config has returned to __init__
ReadReturned ==
    \/ pc \in {"calc_region", "check_paths_exist", "set_radar_site_info", "ready"}
    \/ pc = "failed" /\ error.at # "read_local_config"

TierBySets(rid) ==
    IF rid \in Range(s3car.tier1_radars) THEN 1
    ELSE IF rid \in Range(s3car.tier2_radars) THEN 2
    ELSE IF rid \in Range(s3car.tier3_radars) THEN 3
    ELSE 0

\* C1: whatever the tier lists are (default or overridden), get_radar_tier
\* gives the lowest-numbered tier whose list holds the ID, and 0 when none
\* does: for every ID of the three lists as read_local_config left them, for
\* the IDs queried, and in what a get_radar_tier query returns.
C1_TierFirstMatch ==
    /\ pc = "calc_region" =>
          LET T1 == Range(s3car.tier1_radars)
              T2 == Range(s3car.tier2_radars)
              T3 == Range(s3car.tier3_radars)
          IN  \A rid \in T1 \cup T2 \cup T3 :
                 get_radar_tier(s3car, rid) =
                    IF rid \in T1 THEN 1 ELSE IF rid \in T2 THEN 2 ELSE 3
    /\ \A rid \in QueryIds : get_radar_tier(s3car, rid) = TierBySets(rid)
    /\ result.op = "get_radar_tier" =>
          /\ result.raised = "none"
          /\ result.value = <<TierBySets(result.rid)>>

\* C1 witness: an ID that an override put in tier1 while it also is in
\* tier2 and tier3 was queried and answered 1.
C1_Witness ==
    /\ result.op = "get_radar_tier"
    /\ result.rid \in Range(s3car.tier1_radars)
    /\ result.rid \in Range(s3car.tier2_radars)
    /\ result.rid \in Range(s3car.tier3_radars)
    /\ s3car.tier1_radars # DefaultTier1
    /\ result.value = <<1>>

FileHasList(item) == have_config(localconf, "radar", item)

ExpectedList(item, default) ==
    IF FileHasList(item) THEN config_list(localconf, "radar", item) ELSE default

ExpectedRegion(item, default) ==
    IF have_config(localconf, "region", item)
    THEN Tenths(config_list(localconf, "region", item))
    ELSE default

ExpectedStr(group, item, default) ==
    IF have_config(localconf, group, item)
    THEN GetStr(localconf, group, item)
    ELSE default

\* C2: once read_local_config has returned, every recognised option that
\* local.conf gives holds exactly the file's value (a list option exactly the
\* listed IDs, nothing of the default list), and every option the file does
\* not give holds its built-in default.
C2_OverridesReplace ==
    ReadReturned =>
      /\ s3car.tier1_radars = ExpectedList("tier1", DefaultTier1)
      /\ s3car.tier2_radars = ExpectedList("tier2", DefaultTier2)
      /\ s3car.tier3_radars = ExpectedList("tier3", DefaultTier3)
      /\ s3car.censor_radars = ExpectedList("censor", DefaultCensor)
      /\ s3car.nosun_radars = ExpectedList("nosun", DefaultNosun)
      /\ s3car.region.lat = ExpectedRegion("lat", Defaults.region.lat)
      /\ s3car.region.lon = ExpectedRegion("lon", Defaults.region.lon)
      /\ s3car.country_code = ExpectedStr("country", "code", "AU")
      /\ s3car.gpm_userid = ExpectedStr("gpm", "userid", "")
      /\ s3car.gpm_requestid = ExpectedStr("gpm", "requestid", "001")
      /\ s3car.rainptl_enabled =
            IF have_config(localconf, "rainptl", "enable")
            THEN GetStr(localconf, "rainptl", "enable") \in BooleanTrue
            ELSE TRUE

\* C2 witness: local.conf gave tier1 = "5 9" and nothing else of the radar
\* lists; tier1 is exactly 5, 9 and the other four lists are the defaults.
C2_Witness ==
    /\ ReadReturned
    /\ FileHasList("tier1")
    /\ GetRaw(localconf, "radar", "tier1") = <<"5", " ", "9">>
    /\ s3car.tier1_radars = <<5, 9>>
    /\ ~FileHasList("tier2") /\ s3car.tier2_radars = DefaultTier2
    /\ ~FileHasList("tier3") /\ s3car.tier3_radars = DefaultTier3
    /\ ~FileHasList("censor") /\ s3car.censor_radars = DefaultCensor
    /\ ~FileHasList("nosun") /\ s3car.nosun_radars = DefaultNosun

\* the settings of the object, without what calc_region derives from them
Settings(self) ==
    [self EXCEPT !.region.mercator_x = <<>>, !.region.mercator_y = <<>>,
                 !.region.aspect_ratio = <<>>]

\* C3: whatever local.conf holds (absent, refused by the parser, or with
\* values that cannot be converted), read_local_config does not raise, so
\* construction never ends in it; and with a file that is absent or refused
\* every setting is left at its default.
C3_ReadNeverRaises ==
    /\ (ReadReturned /\ localconf.state # "ok") => Settings(s3car) = Defaults
    /\ error.at # "read_local_config"

\* C4: when construction has ended and one of the path attributes names a
\* directory that does not exist, it ended with FileNotFoundError raised by
\* check_paths_exist for the first such attribute, and the radar table was
\* not loaded.
C4_MissingPathFailsNotFound ==
    (pc \in {"failed", "ready"} /\ check_paths_exist_raises(dirs)) =>
      /\ pc = "failed"
      /\ error.cls = "FileNotFoundError"
      /\ error.at = "check_paths_exist"
      /\ error.path = PathOf(PathAttrs[FirstMissing(dirs)])
      /\ radar_site_info = Unset
      /\ result = NoResult

\* C5: a get_lat, get_lon or get_radar_longname query for an ID that the
\* table or the longname map does not hold returns (a not-found value) and
\* does not raise.
C5_LookupNeverRaises ==
    result.op \in {"get_lat", "get_lon", "get_radar_longname"} =>
        result.raised = "none"

ListedIds ==
    IF have_config(localconf, "radar", "ids") /\
       ~config_list_raises(localconf, "radar", "ids")
    THEN config_list(localconf, "radar", "ids")
    ELSE <<>>

HasLongname(rid) == have_config(localconf, Stanza(rid), "longname")

\* some option of local.conf has a value its conversion refuses
SomeValueRefused ==
    \/ \E e \in localconf.lists : config_list_raises(localconf, e.sec, e.item)
    \/ /\ have_config(localconf, "rainptl", "enable")
       /\ GetStr(localconf, "rainptl", "enable") \notin BooleanTrue \cup BooleanFalse

\* what the loop is to report for one listed ID
ReportsFor(rid) ==
    (IF TierBySets(rid) = 0 THEN <<NoTierMsg(rid)>> ELSE <<>>) \o
    (IF Stanza(rid) \notin Sections(localconf) THEN <<NoEntryMsg(rid)>> ELSE <<>>)

RECURSIVE ReportsInOrder(_)
ReportsInOrder(ids) ==
    IF ids = <<>> THEN <<>>
    ELSE ReportsFor(Head(ids)) \o ReportsInOrder(Tail(ids))

\* C9: with radar.ids in local.conf, every listed ID is dealt with, in the
\* order listed, and none ends the call: the call raises only for a value it
\* cannot convert; an ID without tier and an ID without section are each
\* reported, the former is still given its longname; radar_longname holds
\* the file's longname for exactly the listed IDs whose section has one and
\* the default (or nothing) for every other ID.
C9_RadarIdsLoop ==
    /\ (pc = "failed" /\ error.at = "read_local_config") => SomeValueRefused
    /\ ReadReturned =>
        LET ids == ListedIds
            named == {rid \in Range(ids) : HasLongname(rid)}
        IN  /\ printed = ReportsInOrder(ids)
            /\ DOMAIN s3car.radar_longname = DOMAIN DefaultLongname \cup named
            /\ \A rid \in DOMAIN s3car.radar_longname :
                 s3car.radar_longname[rid] =
                    IF rid \in named
                    THEN GetStr(localconf, Stanza(rid), "longname")
                    ELSE DefaultLongname[rid]

\* C9 witness: ids = "99 5" with a section for 5 only: 99 (no tier, no
\* section) was reported twice and skipped, and 5 then got its longname.
C9_Witness ==
    /\ ReadReturned
    /\ ListedIds = <<99, 5>>
    /\ printed = <<NoTierMsg(99), NoEntryMsg(99)>>
    /\ s3car.radar_longname[5] = "Carnarvon West"
    /\ DefaultLongname[5] = "Carnarvon"
    /\ 99 \notin DOMAIN s3car.radar_longname

---------------------------------------------------------------------------
(* Properties of ODIMFileInfo, checked under SpecOdim *)

Gate1Passes == disk.kind = "file"

Gate2Passes == disk.size > 0

RidInRange == odim.rid > 0 /\ odim.rid <= RidMax

\* C6: the gates are evaluated in the order 1, 2, 3, 4 and construction
\* stops at the first that fails, with that gate's error: the file is opened
\* only after gates 1-3 passed, and a constructed object has 0 < rid <= 1000
\* ("12345_" never gets past gate 3, "42_" gives rid 42).
C6_GatesInOrder ==
    /\ \A i \in 1..Len(gates) : gates[i] = i
    /\ opc = "failed" =>
          /\ oerror.gate = (IF gates = <<>> THEN 0 ELSE gates[Len(gates)])
          /\ oerror.gate = 1 => (~Gate1Passes /\ oerror.cls = "FileNotFoundError")
          /\ oerror.gate = 2 =>
                (Gate1Passes /\ ~Gate2Passes /\ oerror.cls = "FileExistsError")
          /\ oerror.gate = 3 =>
                (Gate1Passes /\ Gate2Passes /\ oerror.cls = "ValueError")
          /\ oerror.gate = 4 => (Gate1Passes /\ Gate2Passes /\ RidInRange)
    /\ (handle # "none" \/ Len(gates) = 4) =>
          (Gate1Passes /\ Gate2Passes /\ RidInRange)
    /\ opc = "done" => (RidInRange /\ gates = <<1, 2, 3, 4>>)
    /\ input_file.text = <<"1", "2", "3", "4", "5", "_">> =>
          (Len(gates) <= 3 /\ opc # "done" /\ handle = "none")
    /\ (input_file.text = <<"4", "2", "_">> /\ Len(gates) >= 4) => odim.rid = 42

\* C6 witness: "42_" on a good file was constructed with rid 42 after all
\* four gates.
C6_Witness ==
    /\ opc = "done"
    /\ input_file.text = <<"4", "2", "_">>
    /\ odim.rid = 42
    /\ gates = <<1, 2, 3, 4>>

\* the largest k with data1..datak all present
Contiguous(nodes) ==
    CHOOSE k \in 0..MaxData :
        /\ \A i \in 1..k : i \in DOMAIN nodes
        /\ (k + 1) \notin DOMAIN nodes

\* C7: whatever children dataset1 has, the moments of a finished set_infos
\* are the quantities of data1..dataK in that order, K the largest index
\* with data1..dataK all present, and no node beyond the first gap is read
\* (data1..3 and data5 without data4 give 3 moments).
C7_MomentsStopAtGap ==
    LET nodes == disk.content.nodes
        K == Contiguous(nodes)
    IN  /\ odim.reads \subseteq 1..K
        /\ odim.has_moments =>
              /\ Len(odim.moments) = K
              /\ \A i \in 1..K : odim.moments[i] = nodes[i].quantity.text
              /\ odim.reads = 1..K
        /\ (odim.has_moments /\ DOMAIN nodes = {1, 2, 3, 5}) =>
              odim.moments = <<"DBZH", "VRADH", "ZDR">>

\* C7 witness: a file with data1, data2, data3 and data5 was read to the
\* end and gave three moments.
C7_Witness ==
    /\ opc = "done"
    /\ DOMAIN disk.content.nodes = {1, 2, 3, 5}
    /\ Len(odim.moments) = 3
    /\ odim.reads = {1, 2, 3}

\* C8: an error of gate 4 (opening and reading the file, parsing its date
\* and time) has an exception class that none of gates 1-3 raises.
C8_Gate4ErrorClassDistinct ==
    (opc = "failed" /\ oerror.gate = 4) =>
        oerror.cls \notin {"FileNotFoundError", "FileExistsError", "ValueError"}

\* C10: the file handle is open only inside the with block: it is closed
\* when the date and time are parsed and whenever construction has returned
\* or raised after opening the file.
C10_HandleReleased ==
    /\ handle = "open" => opc \in {"with_body", "with_exit"}
    /\ opc = "strptime" => handle = "closed"
    /\ opc \in {"done", "failed"} => handle \in {"none", "closed"}
    /\ (opc \in {"done", "failed"} /\ Len(gates) = 4 /\ disk.content.hdf5) =>
          handle = "closed"

\* C10 witness: a read inside the with block raised, and construction
\* failed with the handle closed.
C10_Witness ==
    /\ opc = "failed"
    /\ oerror.what = "read"
    /\ handle = "closed"

====
